---- MODULE Spec2Model ----
(***************************************************************************)
(* State-machine model of the timing-and-scoring engine of src/main.py:    *)
(* the notes (Note, NormalNote, HoldNote, SpecialNote), the NoteFactory,   *)
(* the ScoreManager ledger, the KeyboardInputHandler and the frame loop of *)
(* RhythmGame (run, handle_input, check_hit, spawn_note, update_notes,     *)
(* draw).                                                                  *)
(***************************************************************************)
EXTENDS Integers, Sequences, FiniteSets, TLC

VARIABLES
    notes,            \* RhythmGame.notes: the live list, in spawn order
    score_manager,    \* ScoreManager: score, combo, max_combo, hits
    key_states,       \* KeyboardInputHandler.key_states
    pc,               \* position of the run loop
    since_last_note,  \* pygame.time.get_ticks() - last_note_time
    feedback_text,    \* RhythmGame.feedback_text
    feedback_color,   \* RhythmGame.feedback_color
    feedback_timer,   \* RhythmGame.feedback_timer
    audio_manager,    \* RhythmGame.audio_manager: an AudioManager or None
    spawned,          \* number of notes constructed so far (next note id)
    log,              \* history: every ScoreManager.add_hit call, in order
    steps,            \* history: the steps run so far in the current frame
    pressed,          \* history: pressed_lanes of the handle_input call that
                      \* has just returned, <<>> from the next step on
    sounds,           \* history: every AudioManager.play_hit_sound call
    call              \* the last call of a side-effect-free method, with
                      \* its arguments and the value it returned

vars == <<notes, score_manager, key_states, pc,
          since_last_note, feedback_text, feedback_color, feedback_timer,
          audio_manager, spawned, log, steps, pressed, sounds, call>>

gameVars == <<notes, key_states, pc, since_last_note,
              feedback_text, feedback_color, feedback_timer, audio_manager,
              spawned, steps, pressed, sounds, call>>

----------------------------------------------------------------------------
(* Bounds of the model.                                                    *)

MaxNotes == 1          \* notes constructed in one run of Spec
MaxEvents == 1         \* events delivered by one pygame.event.get()
MaxStreak == 21        \* length of the opening streak of a ledger run
MaxRecords == 2        \* records made after the streak in a ledger run
MaxHits == 5           \* records of the ledger on which the methods are called
MaxDistance == 31      \* largest distance passed to calculate_accuracy

----------------------------------------------------------------------------
(* Program constants.                                                      *)

SCREEN_HEIGHT == 600
NumLanes == 4
hit_zone_y == SCREEN_HEIGHT - 100
note_interval == 800
StartY == -20
NoteSpeed == 4
FeedbackFrames == 60
HoldRadius == 30
PressRadius == 40
PerfectRadius == 15
GoodRadius == 30

Lanes == 0 .. (NumLanes - 1)
HitAccuracy == {"PERFECT", "GOOD", "MISS"}
NoteType == {"NORMAL", "HOLD", "SPECIAL"}

(* Inputs of the environment, drawn from small sets.                       *)
PlayLanes == {2}             \* lanes that receive notes and key events
FrameTimes == {800, 801}     \* ms between two frames
RandDraws == {0, 69, 70, 89, 90, 99}   \* random.random() in hundredths

Min(a, b) == IF a <= b THEN a ELSE b
Max(a, b) == IF a >= b THEN a ELSE b
Abs(a) == IF a >= 0 THEN a ELSE -a

----------------------------------------------------------------------------
(* Notes.                                                                  *)

NoteHeight(kind) == IF kind = "HOLD" THEN 40 ELSE 20

ScoreValue(kind) ==
    CASE kind = "NORMAL" -> 100
      [] kind = "HOLD" -> 200
      [] kind = "SPECIAL" -> 500

\* NoteFactory.create_note: the constructors of the three kinds
create_note(note_type, lane, id) ==
    [id |-> id, lane |-> lane, y |-> StartY, kind |-> note_type,
     speed |-> NoteSpeed, hit |-> FALSE, being_held |-> FALSE,
     hold_timer |-> 0, hit_registered |-> FALSE, glow_timer |-> 0]

create_random_note_inclusive(lane, rand, id) ==
    IF rand <= 70 THEN create_note("NORMAL", lane, id)
    ELSE IF rand <= 90 THEN create_note("HOLD", lane, id)
    ELSE create_note("SPECIAL", lane, id)

\* NoteFactory.create_random_note, rand in hundredths
create_random_note(lane, rand, id) ==
    IF rand < 70 THEN create_note("NORMAL", lane, id)
    ELSE IF rand < 90 THEN create_note("HOLD", lane, id)
    ELSE create_note("SPECIAL", lane, id)

\* Note.update and SpecialNote.update
update(n) ==
    IF n.kind = "SPECIAL"
    THEN [n EXCEPT !.y = n.y + n.speed, !.glow_timer = n.glow_timer + 1]
    ELSE [n EXCEPT !.y = n.y + n.speed]

is_off_screen_at_edge(n) == n.y >= SCREEN_HEIGHT

is_off_screen_below(n) == n.y > SCREEN_HEIGHT + n.speed

is_off_screen(n) == n.y > SCREEN_HEIGHT

get_hit_zone_distance_from_top(n, hz) == Abs(n.y - hz)

get_hit_zone_distance(n, hz) == Abs(n.y + (NoteHeight(n.kind) \div 2) - hz)

calculate_accuracy_exclusive(distance) ==
    IF distance < PerfectRadius THEN "PERFECT"
    ELSE IF distance < GoodRadius THEN "GOOD"
    ELSE "MISS"

\* Note.calculate_accuracy, inherited unchanged by the three kinds
calculate_accuracy(distance) ==
    IF distance <= PerfectRadius THEN "PERFECT"
    ELSE IF distance <= GoodRadius THEN "GOOD"
    ELSE "MISS"

----------------------------------------------------------------------------
(* ScoreManager.                                                           *)

NewScoreManager ==
    [score |-> 0, combo |-> 0, max_combo |-> 0,
     hits |-> [a \in HitAccuracy |-> 0]]

\* multiplier, in tenths
Multiplier(accuracy) == IF accuracy = "PERFECT" THEN 15 ELSE 10

\* min(combo * 0.1, 2.0), in tenths
ComboBonus(combo) == Min(combo, 20)

\* The product of line 429 is computed in binary floating point.  For the
\* base scores and combos of the game it falls below the exact product, by
\* less than 1e-13, in exactly these cases (1 + 13 * 0.1 rounds to
\* 2.3 - 2^-52 and the product to 229.99.., 459.99.., 1724.99..), and int()
\* then truncates to the integer below.
FloatShortfall(base_score, accuracy, combo) ==
    IF combo = 13 /\ <<base_score, Multiplier(accuracy)>> \in
                        {<<100, 10>>, <<200, 10>>, <<500, 15>>}
    THEN 1 ELSE 0

\* int(base_score * multiplier * (1 + combo_bonus))
FinalScore(base_score, accuracy, combo) ==
    ((base_score * Multiplier(accuracy) * (10 + ComboBonus(combo))) \div 100)
        - FloatShortfall(base_score, accuracy, combo)

add_hit_keep_combo(sm, accuracy, base_score) ==
    LET counted == [sm EXCEPT !.hits[accuracy] = sm.hits[accuracy] + 1]
    IN  IF accuracy # "MISS"
        THEN LET c == counted.combo + 1
             IN  [counted EXCEPT
                    !.combo = c,
                    !.max_combo = Max(counted.max_combo, c),
                    !.score = counted.score + FinalScore(base_score, accuracy, c)]
        ELSE counted

add_hit_max_follows_combo(sm, accuracy, base_score) ==
    LET counted == [sm EXCEPT !.hits[accuracy] = sm.hits[accuracy] + 1]
    IN  IF accuracy # "MISS"
        THEN LET c == counted.combo + 1
             IN  [counted EXCEPT
                    !.combo = c,
                    !.max_combo = c,
                    !.score = counted.score + FinalScore(base_score, accuracy, c)]
        ELSE [counted EXCEPT !.combo = 0, !.max_combo = 0]

add_hit_max_lags(sm, accuracy, base_score) ==
    LET counted == [sm EXCEPT !.hits[accuracy] = sm.hits[accuracy] + 1]
    IN  IF accuracy # "MISS"
        THEN LET c == counted.combo + 1
             IN  [counted EXCEPT
                    !.combo = c,
                    !.max_combo = Max(counted.max_combo, counted.combo),
                    !.score = counted.score + FinalScore(base_score, accuracy, c)]
        ELSE [counted EXCEPT !.combo = 0]

add_hit(sm, accuracy, base_score) ==
    LET counted == [sm EXCEPT !.hits[accuracy] = sm.hits[accuracy] + 1]
    IN  IF accuracy # "MISS"
        THEN LET c == counted.combo + 1
             IN  [counted EXCEPT
                    !.combo = c,
                    !.max_combo = Max(counted.max_combo, c),
                    !.score = counted.score + FinalScore(base_score, accuracy, c)]
        ELSE [counted EXCEPT !.combo = 0]

get_accuracy_percentage_of_scored(sm) ==
    LET successful_hits == sm.hits["PERFECT"] + sm.hits["GOOD"]
    IN  IF successful_hits = 0 THEN <<0, 1>>
        ELSE <<successful_hits * 100, successful_hits>>

\* ScoreManager.get_accuracy_percentage.  The value returned is the integer 0
\* or the double (successful_hits / total_hits) * 100; it is written here as
\* the fraction <<numerator, denominator>> that the double rounds, which it
\* equals whenever the fraction is a whole number for up to 12 records.
get_accuracy_percentage(sm) ==
    LET total_hits == sm.hits["PERFECT"] + sm.hits["GOOD"] + sm.hits["MISS"]
        successful_hits == sm.hits["PERFECT"] + sm.hits["GOOD"]
    IN  IF total_hits = 0 THEN <<0, 1>>
        ELSE <<successful_hits * 100, total_hits>>

get_accuracy_color(accuracy) ==
    IF accuracy = "PERFECT" THEN "GREEN"
    ELSE IF accuracy = "GOOD" THEN "YELLOW"
    ELSE "RED"

----------------------------------------------------------------------------
(* KeyboardInputHandler.                                                   *)

\* the events of the lane keys; the loop is followed while the game runs
Event == [type : {"KEYDOWN", "KEYUP"}, key : PlayLanes]

\* the keyboard delivers KEYDOWN for a key that is up and KEYUP for one
\* that is down
RECURSIVE ValidEvents(_, _)
ValidEvents(evs, ks) ==
    IF evs = <<>> THEN TRUE
    ELSE LET e == Head(evs)
         IN  /\ (e.type = "KEYDOWN") = ~ks[e.key]
             /\ ValidEvents(Tail(evs), [ks EXCEPT ![e.key] = ~ks[e.key]])

EventLists(ks) ==
    {evs \in UNION {[1 .. n -> Event] : n \in 0 .. MaxEvents} :
        ValidEvents(evs, ks)}

\* the event loop of KeyboardInputHandler.handle_input
RECURSIVE read_events(_, _, _)
read_events(evs, pressed_lanes, ks) ==
    IF evs = <<>> THEN [pressed_lanes |-> pressed_lanes, key_states |-> ks]
    ELSE LET e == Head(evs)
         IN  IF e.type = "KEYDOWN" /\ e.key \in Lanes
             THEN read_events(Tail(evs), Append(pressed_lanes, e.key),
                              [ks EXCEPT ![e.key] = TRUE])
             ELSE IF e.type = "KEYUP" /\ e.key \in Lanes
             THEN read_events(Tail(evs), pressed_lanes,
                              [ks EXCEPT ![e.key] = FALSE])
             ELSE read_events(Tail(evs), pressed_lanes, ks)

\* the scan for held keys, by increasing lane
RECURSIVE held_from(_, _)
held_from(ks, i) ==
    IF i >= NumLanes THEN <<>>
    ELSE IF ks[i] THEN <<i>> \o held_from(ks, i + 1)
    ELSE held_from(ks, i + 1)

input_handler(evs, ks) ==
    LET r == read_events(evs, <<>>, ks)
    IN  [pressed_lanes |-> r.pressed_lanes,
         held_lanes |-> held_from(r.key_states, 0),
         key_states |-> r.key_states]

----------------------------------------------------------------------------
(* RhythmGame: scoring a hit, check_hit, handle_input.                     *)

\* the part of the game that check_hit and update_notes read and write
Engine ==
    [notes |-> notes, sm |-> score_manager, text |-> feedback_text,
     color |-> feedback_color, timer |-> feedback_timer, log |-> log,
     sounds |-> sounds, raised |-> FALSE]

\* the key of the sound that AudioManager.play_hit_sound looks up
sound_key(accuracy, is_special) ==
    IF is_special THEN "special"
    ELSE IF accuracy = "PERFECT" THEN "perfect"
    ELSE IF accuracy = "GOOD" THEN "good"
    ELSE "miss"

\* AudioManager.play_hit_sound.  The dictionary _sounds is empty (line 249;
\* _load_sounds has no body), so the lookup raises KeyError, which the
\* handler of line 372 catches: the call returns without a sound played.
play_hit_sound(st, accuracy, is_special) ==
    [st EXCEPT !.sounds = Append(st.sounds,
                   [accuracy |-> accuracy, is_special |-> is_special,
                    key |-> sound_key(accuracy, is_special),
                    played |-> FALSE])]

show_feedback_keep_color(st, text, color) ==
    [st EXCEPT !.text = text, !.timer = FeedbackFrames]

show_feedback(st, text, color) ==
    [st EXCEPT !.text = text, !.color = color, !.timer = FeedbackFrames]

\* one add_hit call, with its entry in the history
record_hit(st, note, accuracy, base_score, via) ==
    LET sm2 == add_hit(st.sm, accuracy, base_score)
    IN  [st EXCEPT
           !.sm = sm2,
           !.log = Append(st.log,
                     [id |-> note.id, kind |-> note.kind, lane |-> note.lane,
                      accuracy |-> accuracy, base |-> base_score, via |-> via,
                      combo |-> sm2.combo,
                      award |-> sm2.score - st.sm.score])]

score_hold_unregistered(st, i, distance, am) ==
    LET note == st.notes[i]
        accuracy == calculate_accuracy(distance)
        scored == record_hit(st, note, accuracy, ScoreValue(note.kind),
                             "hold")
    IN  IF am = "None" THEN [scored EXCEPT !.raised = TRUE]
        ELSE show_feedback(play_hit_sound(scored, accuracy, FALSE),
                           accuracy, get_accuracy_color(accuracy))

score_hold_by_duration(st, i, distance, am) ==
    LET note == st.notes[i]
        accuracy == calculate_accuracy(distance)
        scored == record_hit(st, note, accuracy,
                             ScoreValue(note.kind) * note.hold_timer, "hold")
    IN  IF am = "None" THEN [scored EXCEPT !.raised = TRUE]
        ELSE [show_feedback(play_hit_sound(scored, accuracy, FALSE),
                            accuracy, get_accuracy_color(accuracy))
                EXCEPT !.notes[i].hit_registered = TRUE]

\* lines 575-579: the first contact of a Hold note.  play_hit_sound of an
\* AudioManager returns normally; a call on None raises and leaves check_hit
\* before the note is marked.
score_hold(st, i, distance, am) ==
    LET note == st.notes[i]
        accuracy == calculate_accuracy(distance)
        scored == record_hit(st, note, accuracy, ScoreValue(note.kind),
                             "hold")
    IN  IF am = "None" THEN [scored EXCEPT !.raised = TRUE]
        ELSE [show_feedback(play_hit_sound(scored, accuracy, FALSE),
                            accuracy, get_accuracy_color(accuracy))
                EXCEPT !.notes[i].hit_registered = TRUE]

score_press_keep_missed(st, i, distance, am) ==
    LET note == st.notes[i]
        accuracy == calculate_accuracy(distance)
        scored == record_hit(st, note, accuracy, ScoreValue(note.kind),
                             "press")
    IN  IF am = "None" THEN [scored EXCEPT !.raised = TRUE]
        ELSE [show_feedback(play_hit_sound(scored, accuracy,
                                           note.kind = "SPECIAL"),
                            accuracy, get_accuracy_color(accuracy))
                EXCEPT !.notes[i].hit = (accuracy # "MISS")]

\* lines 583-588: a press on a Normal or Special note
score_press(st, i, distance, am) ==
    LET note == st.notes[i]
        accuracy == calculate_accuracy(distance)
        scored == record_hit(st, note, accuracy, ScoreValue(note.kind),
                             "press")
    IN  IF am = "None" THEN [scored EXCEPT !.raised = TRUE]
        ELSE [show_feedback(play_hit_sound(scored, accuracy,
                                           note.kind = "SPECIAL"),
                            accuracy, get_accuracy_color(accuracy))
                EXCEPT !.notes[i].hit = TRUE]

\* HoldNote.being_held setter, called with True
set_being_held(n) ==
    [n EXCEPT !.being_held = TRUE, !.hold_timer = n.hold_timer + 1]

RECURSIVE check_hit_from_no_break(_, _, _, _, _)
check_hit_from_no_break(st, lane, is_hold, i, am) ==
    IF i > Len(st.notes) \/ st.raised THEN st
    ELSE
      LET note == st.notes[i]
          distance == get_hit_zone_distance(note, hit_zone_y)
      IN  IF note.lane = lane /\ ~note.hit
          THEN IF note.kind = "HOLD"
               THEN IF is_hold /\ distance <= HoldRadius
                    THEN LET held == [st EXCEPT !.notes[i] = set_being_held(note)]
                         IN  IF ~note.hit_registered
                             THEN check_hit_from_no_break(
                                      score_hold(held, i, distance, am),
                                      lane, is_hold, i + 1, am)
                             ELSE check_hit_from_no_break(held, lane, is_hold,
                                                          i + 1, am)
                    ELSE check_hit_from_no_break(st, lane, is_hold, i + 1, am)
               ELSE IF ~is_hold /\ distance <= PressRadius
                    THEN check_hit_from_no_break(
                             score_press(st, i, distance, am),
                             lane, is_hold, i + 1, am)
                    ELSE check_hit_from_no_break(st, lane, is_hold, i + 1, am)
          ELSE check_hit_from_no_break(st, lane, is_hold, i + 1, am)

RECURSIVE check_hit_from_wide_hold(_, _, _, _, _)
check_hit_from_wide_hold(st, lane, is_hold, i, am) ==
    IF i > Len(st.notes) \/ st.raised THEN st
    ELSE
      LET note == st.notes[i]
          distance == get_hit_zone_distance(note, hit_zone_y)
      IN  IF note.lane = lane /\ ~note.hit
          THEN IF note.kind = "HOLD"
               THEN IF is_hold /\ distance <= PressRadius
                    THEN LET held == [st EXCEPT !.notes[i] = set_being_held(note)]
                         IN  IF ~note.hit_registered
                             THEN check_hit_from_wide_hold(
                                      score_hold(held, i, distance, am),
                                      lane, is_hold, i + 1, am)
                             ELSE check_hit_from_wide_hold(held, lane, is_hold,
                                                           i + 1, am)
                    ELSE check_hit_from_wide_hold(st, lane, is_hold, i + 1, am)
               ELSE IF ~is_hold /\ distance <= PressRadius
                    THEN score_press(st, i, distance, am)
                    ELSE check_hit_from_wide_hold(st, lane, is_hold, i + 1, am)
          ELSE check_hit_from_wide_hold(st, lane, is_hold, i + 1, am)

\* the loop of check_hit, from the i-th live note on
RECURSIVE check_hit_from(_, _, _, _, _)
check_hit_from(st, lane, is_hold, i, am) ==
    IF i > Len(st.notes) \/ st.raised THEN st
    ELSE
      LET note == st.notes[i]
          distance == get_hit_zone_distance(note, hit_zone_y)
      IN  IF note.lane = lane /\ ~note.hit
          THEN IF note.kind = "HOLD"
               THEN IF is_hold /\ distance <= HoldRadius
                    THEN LET held == [st EXCEPT !.notes[i] = set_being_held(note)]
                         IN  IF ~note.hit_registered
                             THEN check_hit_from(score_hold(held, i, distance, am),
                                                 lane, is_hold, i + 1, am)
                             ELSE check_hit_from(held, lane, is_hold, i + 1, am)
                    ELSE check_hit_from(st, lane, is_hold, i + 1, am)
               ELSE IF ~is_hold /\ distance <= PressRadius
                    THEN score_press(st, i, distance, am)
                    ELSE check_hit_from(st, lane, is_hold, i + 1, am)
          ELSE check_hit_from(st, lane, is_hold, i + 1, am)

check_hit(st, lane, is_hold, am) == check_hit_from(st, lane, is_hold, 1, am)

\* one of the two loops of RhythmGame.handle_input
RECURSIVE check_lanes(_, _, _, _)
check_lanes(st, lanes, is_hold, am) ==
    IF lanes = <<>> \/ st.raised THEN st
    ELSE check_lanes(check_hit(st, Head(lanes), is_hold, am),
                     Tail(lanes), is_hold, am)

handle_input(st, pressed_lanes, held_lanes, am) ==
    check_lanes(check_lanes(st, pressed_lanes, FALSE, am), held_lanes, TRUE, am)

----------------------------------------------------------------------------
(* RhythmGame.update_notes.                                                *)

RECURSIVE update_from_live(_, _, _)
update_from_live(st, kept, copy) ==
    IF copy = <<>> THEN [st EXCEPT !.notes = kept]
    ELSE
      LET note == update(Head(copy))
          passed == IF Len(copy) > 1 THEN Append(kept, copy[2]) ELSE kept
          rest == IF Len(copy) > 1 THEN Tail(Tail(copy)) ELSE <<>>
      IN  IF is_off_screen(note)
          THEN IF ~note.hit
               THEN update_from_live(
                        show_feedback(record_hit(st, note, "MISS", 0, "expiry"),
                                      "MISS", "RED"),
                        passed, rest)
               ELSE update_from_live(st, passed, rest)
          ELSE update_from_live(st, Append(kept, note), Tail(copy))

\* the loop over the copy of the live list: kept is the part of the live
\* list already passed, copy the part still to visit
RECURSIVE update_from(_, _, _)
update_from(st, kept, copy) ==
    IF copy = <<>> THEN [st EXCEPT !.notes = kept]
    ELSE
      LET note == update(Head(copy))
      IN  IF is_off_screen(note)
          THEN IF ~note.hit
               THEN update_from(
                        show_feedback(record_hit(st, note, "MISS", 0, "expiry"),
                                      "MISS", "RED"),
                        kept, Tail(copy))
               ELSE update_from(st, kept, Tail(copy))
          ELSE update_from(st, Append(kept, note), Tail(copy))

update_notes(st) == update_from(st, <<>>, st.notes)

----------------------------------------------------------------------------
(* The frame loop, RhythmGame.run.                                         *)

\* the order in which the body of the loop calls the steps of a frame
run_order_spawn_first == <<"spawn", "update", "input", "draw">>

run_order == <<"input", "spawn", "update", "draw">>

step_after(step) ==
    LET i == CHOOSE k \in 1 .. Len(run_order) : run_order[k] = step
    IN  run_order[(i % Len(run_order)) + 1]

\* the steps of the current frame, with the one being taken
step_done(step) ==
    IF step = run_order[1] THEN <<step>> ELSE Append(steps, step)

\* no side-effect-free method has been called yet
NoCall == [name |-> "none", args |-> <<>>, result |-> <<>>]

\* the game as RhythmGame.__init__ leaves it, with the audio manager am
InitWith(am) ==
    /\ notes = <<>>
    /\ score_manager = NewScoreManager
    /\ key_states = [i \in Lanes |-> FALSE]
    /\ pc = run_order[1]
    /\ since_last_note = 0
    /\ feedback_text = ""
    /\ feedback_color = "WHITE"
    /\ feedback_timer = 0
    /\ audio_manager = am
    /\ spawned = 0
    /\ log = <<>>
    /\ steps = <<>>
    /\ pressed = <<>>
    /\ sounds = <<>>
    /\ call = NoCall

\* the game with the AudioManager of line 488
Init == InitWith("AudioManager")

\* lines 671 and 682: read the events of the frame, one of the given lists,
\* and RhythmGame.handle_input
handle_events(lists) ==
    /\ pc = "input"
    /\ \E evs \in lists :
         LET inp == input_handler(evs, key_states)
             st == handle_input(Engine, inp.pressed_lanes, inp.held_lanes,
                                audio_manager)
         IN  /\ pressed' = inp.pressed_lanes
             /\ key_states' = inp.key_states
             /\ notes' = st.notes
             /\ score_manager' = st.sm
             /\ feedback_text' = st.text
             /\ feedback_color' = st.color
             /\ feedback_timer' = st.timer
             /\ log' = st.log
             /\ sounds' = st.sounds
             /\ pc' = IF st.raised THEN "crashed" ELSE step_after("input")
    /\ steps' = step_done("input")
    /\ UNCHANGED <<since_last_note, audio_manager, spawned, call>>

HandleInput == handle_events(EventLists(key_states))

spawn_note_in_at_interval(cap, lanes) ==
    /\ pc = "spawn"
    /\ IF since_last_note >= note_interval /\ spawned < cap
       THEN \E lane \in lanes, rand \in RandDraws :
              /\ notes' = Append(notes, create_random_note(lane, rand, spawned))
              /\ since_last_note' = 0
              /\ spawned' = spawned + 1
       ELSE UNCHANGED <<notes, since_last_note, spawned>>
    /\ pc' = step_after("spawn")
    /\ steps' = step_done("spawn")
    /\ pressed' = <<>>
    /\ UNCHANGED <<score_manager, key_states, feedback_text, feedback_color,
                   feedback_timer, audio_manager, log, sounds, call>>

\* line 685: RhythmGame.spawn_note, in a run that constructs cap notes, with
\* random.randint(0, 3) drawn from lanes
spawn_note_in(cap, lanes) ==
    /\ pc = "spawn"
    /\ IF since_last_note > note_interval /\ spawned < cap
       THEN \E lane \in lanes, rand \in RandDraws :
              /\ notes' = Append(notes, create_random_note(lane, rand, spawned))
              /\ since_last_note' = 0
              /\ spawned' = spawned + 1
       ELSE UNCHANGED <<notes, since_last_note, spawned>>
    /\ pc' = step_after("spawn")
    /\ steps' = step_done("spawn")
    /\ pressed' = <<>>
    /\ UNCHANGED <<score_manager, key_states, feedback_text, feedback_color,
                   feedback_timer, audio_manager, log, sounds, call>>

spawn_note(cap) == spawn_note_in(cap, PlayLanes)

SpawnNote == spawn_note(MaxNotes)

\* spawn_note in a run that constructs two notes
SpawnNotePair == spawn_note(2)

\* line 686: RhythmGame.update_notes
UpdateNotes ==
    /\ pc = "update"
    /\ LET st == update_notes(Engine)
       IN  /\ notes' = st.notes
           /\ score_manager' = st.sm
           /\ feedback_text' = st.text
           /\ feedback_color' = st.color
           /\ feedback_timer' = st.timer
           /\ log' = st.log
           /\ sounds' = st.sounds
    /\ pc' = step_after("update")
    /\ steps' = step_done("update")
    /\ UNCHANGED <<key_states, since_last_note, audio_manager, spawned,
                   pressed, call>>

\* lines 689-690: RhythmGame.draw (lines 629-634) and the wait for the next
\* frame.  The clock is read only
\* as the time since the last spawn, and only compared with note_interval:
\* readings above it are kept at note_interval + 1.
Draw ==
    /\ pc = "draw"
    /\ feedback_timer' = IF feedback_timer > 0 THEN feedback_timer - 1
                         ELSE feedback_timer
    /\ \E dt \in FrameTimes :
         since_last_note' = Min(since_last_note + dt, note_interval + 1)
    /\ pc' = step_after("draw")
    /\ steps' = step_done("draw")
    /\ UNCHANGED <<notes, score_manager, key_states, feedback_text,
                   feedback_color, audio_manager, spawned, log, pressed,
                   sounds, call>>

Next == HandleInput \/ SpawnNote \/ UpdateNotes \/ Draw

Spec == Init /\ [][Next]_vars

\* runs in which frames keep executing: the loop of run goes on while
\* self.running holds, and every step of a frame returns
SpecLive == Spec /\ WF_vars(Next)

\* runs with two notes, spawned one or two frames apart and live together
NextPair == HandleInput \/ SpawnNotePair \/ UpdateNotes \/ Draw

SpecPair == Init /\ [][NextPair]_vars

\* runs of a game whose audio manager is the AudioManager of line 488 or,
\* its initialisation having failed, the None of line 499
InitAudio == \E am \in {"AudioManager", "None"} : InitWith(am)

SpecAudio == InitAudio /\ [][Next]_vars

\* runs with two notes, each in any of the four lanes, and no key touched
SpawnNoteAnyLane == spawn_note_in(2, Lanes)

\* a frame in which no key event arrives
HandleNoEvent == handle_events({<<>>})

NextLanes == HandleNoEvent \/ SpawnNoteAnyLane \/ UpdateNotes \/ Draw

SpecLanes == Init /\ [][NextLanes]_vars

----------------------------------------------------------------------------
(* Runs of the ledger alone: a streak of Perfect records of a Normal note, *)
(* then up to MaxRecords records of every accuracy and base score.         *)

BaseScores == {0, 100, 200, 500}

LedgerEntry(sm, accuracy, base_score, via) ==
    LET sm2 == add_hit(sm, accuracy, base_score)
    IN  [id |-> 0, kind |-> "NORMAL", lane |-> 0, accuracy |-> accuracy,
         base |-> base_score, via |-> via, combo |-> sm2.combo,
         award |-> sm2.score - sm.score]

RECURSIVE Streak(_)
Streak(k) ==
    IF k = 0 THEN [sm |-> NewScoreManager, log |-> <<>>]
    ELSE LET prev == Streak(k - 1)
         IN  [sm |-> add_hit(prev.sm, "PERFECT", 100),
              log |-> Append(prev.log,
                             LedgerEntry(prev.sm, "PERFECT", 100, "streak"))]

Recorded == Cardinality({i \in 1 .. Len(log) : log[i].via = "record"})

InitLedger ==
    /\ \E k \in 0 .. MaxStreak :
         /\ score_manager = Streak(k).sm
         /\ log = Streak(k).log
    /\ notes = <<>>
    /\ key_states = [i \in Lanes |-> FALSE]
    /\ pc = "input"
    /\ since_last_note = 0
    /\ feedback_text = ""
    /\ feedback_color = "WHITE"
    /\ feedback_timer = 0
    /\ audio_manager = "AudioManager"
    /\ spawned = 0
    /\ steps = <<>>
    /\ pressed = <<>>
    /\ sounds = <<>>
    /\ call = NoCall

\* one call of ScoreManager.add_hit
AddHit ==
    /\ Recorded < MaxRecords
    /\ \E accuracy \in HitAccuracy, base_score \in BaseScores :
         /\ score_manager' = add_hit(score_manager, accuracy, base_score)
         /\ log' = Append(log, LedgerEntry(score_manager, accuracy, base_score,
                                           "record"))
    /\ UNCHANGED gameVars

NextLedger == AddHit

SpecLedger == InitLedger /\ [][NextLedger]_vars

----------------------------------------------------------------------------
(* Calls of the side-effect-free methods: Note.calculate_accuracy,         *)
(* ScoreManager.get_accuracy_percentage and                                *)
(* NoteFactory.create_random_note, on a game with one note just spawned    *)
(* and a ledger of up to MaxHits records.                                  *)

\* the ledger and the history after records of the given accuracies, each
\* of a Normal note
RECURSIVE Replay(_)
Replay(accs) ==
    IF accs = <<>> THEN [sm |-> NewScoreManager, log |-> <<>>]
    ELSE LET prev == Replay(SubSeq(accs, 1, Len(accs) - 1))
             accuracy == accs[Len(accs)]
         IN  [sm |-> add_hit(prev.sm, accuracy, 100),
              log |-> Append(prev.log,
                             LedgerEntry(prev.sm, accuracy, 100, "replay"))]

InitCalls ==
    /\ \E accs \in UNION {[1 .. n -> HitAccuracy] : n \in 0 .. MaxHits} :
         /\ score_manager = Replay(accs).sm
         /\ log = Replay(accs).log
    /\ \E note_type \in NoteType, lane \in PlayLanes :
         notes = <<create_note(note_type, lane, 0)>>
    /\ spawned = 1
    /\ key_states = [i \in Lanes |-> FALSE]
    /\ pc = run_order[1]
    /\ since_last_note = 0
    /\ feedback_text = ""
    /\ feedback_color = "WHITE"
    /\ feedback_timer = 0
    /\ audio_manager = "AudioManager"
    /\ steps = <<>>
    /\ pressed = <<>>
    /\ sounds = <<>>
    /\ call = NoCall

calledVars == <<notes, score_manager, key_states, pc, since_last_note,
                feedback_text, feedback_color, feedback_timer, audio_manager,
                spawned, log, steps, pressed, sounds>>

\* note.calculate_accuracy(distance) on a live note
CalculateAccuracy ==
    /\ \E i \in 1 .. Len(notes), distance \in 0 .. MaxDistance :
         call' = [name |-> "calculate_accuracy",
                  args |-> <<notes[i].kind, distance>>,
                  result |-> calculate_accuracy(distance)]
    /\ UNCHANGED calledVars

\* score_manager.get_accuracy_percentage()
GetAccuracyPercentage ==
    /\ call' = [name |-> "get_accuracy_percentage", args |-> <<>>,
                result |-> get_accuracy_percentage(score_manager)]
    /\ UNCHANGED calledVars

\* NoteFactory.create_random_note(lane), with the value random.random()
\* returns in it
CreateRandomNote ==
    /\ \E lane \in Lanes, rand \in RandDraws :
         call' = [name |-> "create_random_note", args |-> <<lane, rand>>,
                  result |-> create_random_note(lane, rand, spawned)]
    /\ UNCHANGED calledVars

NextCalls == CalculateAccuracy \/ GetAccuracyPercentage \/ CreateRandomNote

SpecCalls == InitCalls /\ [][NextCalls]_vars

----------------------------------------------------------------------------
(* Definitions shared by the properties below.  They restate the numbers   *)
(* of the specification and do not use the operators of the model.         *)

\* the log entries a step has added
NewEntries == SubSeq(log', Len(log) + 1, Len(log'))

EntriesOf(entries, id) == {k \in 1 .. Len(entries) : entries[k].id = id}

\* distance of the centre of a note to the hit-line at 500
CentreDistance(n) ==
    LET centre == n.y + (IF n.kind = "HOLD" THEN 20 ELSE 10)
    IN  IF centre >= 500 THEN centre - 500 ELSE 500 - centre

Classify(d) == IF d <= 15 THEN "PERFECT" ELSE IF d <= 30 THEN "GOOD" ELSE "MISS"

LiveIds == {notes[i].id : i \in 1 .. Len(notes)}

----------------------------------------------------------------------------
----------------------------------------------------------------------------
\* C2: every note causes exactly one ledger record over its lifetime, from
\* input resolution or from expiry and never both: no note has two records,
\* and a note that has left the live set has one.
C2_OneRecordPerNote ==
    /\ \A i, j \in 1 .. Len(log) : log[i].id = log[j].id => i = j
    /\ \A id \in 0 .. (spawned - 1) :
         id \notin LiveIds => EntriesOf(log, id) # {}

----------------------------------------------------------------------------
\* C3: when the advance step moves a note past the bottom boundary (position
\* > 600), the note leaves the live set in that step; if its hit flag is not
\* set exactly one Miss with base score 0 is recorded for it, if it is set
\* nothing is recorded and the ledger is unchanged.  Every other note stays.
C3_ExpiryScoring ==
    [][pc = "update" =>
        LET Passing == {i \in 1 .. Len(notes) : notes[i].y + notes[i].speed > 600}
            Unhit == {i \in Passing : ~notes[i].hit}
        IN  /\ \A i \in Passing : notes[i].id \notin {notes'[j].id : j \in 1 .. Len(notes')}
            /\ \A i \in (1 .. Len(notes)) \ Passing :
                 notes[i].id \in {notes'[j].id : j \in 1 .. Len(notes')}
            /\ \A i \in Unhit :
                 /\ Cardinality(EntriesOf(NewEntries, notes[i].id)) = 1
                 /\ \A k \in EntriesOf(NewEntries, notes[i].id) :
                      /\ NewEntries[k].accuracy = "MISS"
                      /\ NewEntries[k].base = 0
                      /\ NewEntries[k].award = 0
            /\ \A i \in Passing \ Unhit : EntriesOf(NewEntries, notes[i].id) = {}
            /\ Len(NewEntries) = Cardinality(Unhit)
            /\ score_manager'.hits["MISS"] =
                 score_manager.hits["MISS"] + Cardinality(Unhit)
            /\ Unhit = {} => score_manager' = score_manager
    ]_vars

\* C3 witness: a note that was never hit has just passed the boundary, is
\* gone from the live set, and the one record of the run is its Miss
C3_Witness ==
    /\ pc = "draw"
    /\ spawned = 1
    /\ notes = <<>>
    /\ Len(log) = 1
    /\ log[1].via = "expiry"
    /\ log[1].accuracy = "MISS"
    /\ score_manager.hits["MISS"] = 1
    /\ feedback_timer = 60

----------------------------------------------------------------------------
\* C4: in every frame in which the lane of a Hold note is held while the
\* note is within distance <= 30 of the hit-line, the note is in contact;
\* the first contact frame makes exactly one record for it, Perfect or Good,
\* and every later contact frame makes none.
C4_HoldScoredOnce ==
    [][pc = "input" =>
        \A i \in 1 .. Len(notes) :
            notes[i].kind = "HOLD" =>
                LET n == notes[i]
                    Mine == EntriesOf(NewEntries, n.id)
                IN  IF key_states'[n.lane] /\ CentreDistance(n) <= 30
                    THEN /\ notes'[i].hold_timer = n.hold_timer + 1
                         /\ IF n.hold_timer = 0
                            THEN /\ Cardinality(Mine) = 1
                                 /\ \A k \in Mine :
                                      /\ NewEntries[k].accuracy \in {"PERFECT", "GOOD"}
                                      /\ NewEntries[k].accuracy = Classify(CentreDistance(n))
                            ELSE Mine = {}
                    ELSE /\ notes'[i] = n
                         /\ Mine = {}
    ]_vars

\* C4 witness: a Hold note held for 5 consecutive frames inside the window,
\* with one record
C4_Witness ==
    /\ Len(notes) = 1
    /\ notes[1].kind = "HOLD"
    /\ notes[1].hold_timer = 5
    /\ key_states[notes[1].lane]
    /\ Len(log) = 1
    /\ log[1].via = "hold"
    /\ log[1].accuracy \in {"PERFECT", "GOOD"}

----------------------------------------------------------------------------
\* the number of fresh-press events on a lane in the input step being taken
Presses(l) == Cardinality({k \in 1 .. Len(pressed') : pressed'[k] = l})

SetMin(S) == CHOOSE x \in S : \A y \in S : x <= y

\* C5: for each fresh-press event on a lane, input resolution marks at most
\* one note hit and makes at most one record, and the note chosen is the
\* earliest-spawned not-yet-hit Normal or Special note of that lane within
\* distance <= 40; Hold notes and out-of-range notes before it are skipped.
C5_PressHitsEarliestEligible ==
    [][pc = "input" =>
        \A l \in Lanes :
            LET Eligible == {i \in 1 .. Len(notes) :
                                /\ notes[i].lane = l
                                /\ ~notes[i].hit
                                /\ notes[i].kind # "HOLD"
                                /\ CentreDistance(notes[i]) <= 40}
                Chosen == {i \in Eligible :
                              Cardinality({j \in Eligible : j < i}) < Presses(l)}
                NewlyHit == {i \in 1 .. Len(notes) :
                                /\ notes[i].lane = l
                                /\ ~notes[i].hit
                                /\ notes'[i].hit}
                PressRecords == {k \in 1 .. Len(NewEntries) :
                                    /\ NewEntries[k].via = "press"
                                    /\ NewEntries[k].lane = l}
            IN  /\ Len(notes') = Len(notes)
                /\ NewlyHit = Chosen
                /\ Cardinality(NewlyHit) <= Presses(l)
                /\ Cardinality(PressRecords) = Cardinality(NewlyHit)
                /\ \A i \in Chosen :
                     Cardinality({k \in PressRecords :
                                    NewEntries[k].id = notes[i].id}) = 1
    ]_vars

\* C5 witness: one press has hit the second note of the lane, skipping the
\* unhit Hold note spawned before it, which is inside the press radius
C5_Witness ==
    /\ pc = "spawn"
    /\ pressed = <<2>>
    /\ Len(notes) = 2
    /\ notes[1].lane = 2 /\ notes[2].lane = 2
    /\ notes[1].kind = "HOLD" /\ ~notes[1].hit
    /\ CentreDistance(notes[1]) <= 30
    /\ notes[1].hold_timer = 1
    /\ notes[2].kind = "NORMAL" /\ notes[2].hit
    /\ Len(log) = 2
    /\ log[1].via = "press" /\ log[1].id = notes[2].id
    /\ log[2].via = "hold" /\ log[2].id = notes[1].id

----------------------------------------------------------------------------
\* C6: for each held lane in a frame only the first not-yet-hit Hold note of
\* the lane within distance <= 30 is marked being_held and scored; any other
\* Hold note of the lane within distance <= 30 is left as it was and causes
\* no record in that frame.
C6_OnlyFirstHoldInLane ==
    [][pc = "input" =>
        \A l \in Lanes :
            LET InRange == {i \in 1 .. Len(notes) :
                               /\ notes[i].lane = l
                               /\ ~notes[i].hit
                               /\ notes[i].kind = "HOLD"
                               /\ CentreDistance(notes[i]) <= 30}
            IN  key_states'[l] /\ InRange # {} =>
                    /\ notes'[SetMin(InRange)].being_held
                    /\ \A i \in InRange \ {SetMin(InRange)} :
                         /\ notes'[i] = notes[i]
                         /\ EntriesOf(NewEntries, notes[i].id) = {}
    ]_vars

----------------------------------------------------------------------------
\* C7: a fresh press on lane L, when the earliest-spawned unhit Normal or
\* Special note of L is at distance d <= 40, sets that note's hit flag and
\* records exactly one entry for it, with accuracy classify(d) and the base
\* score of its kind (Normal 100, Special 500).  With a fresh ledger, a
\* Normal note in lane 2 at distance 10 gives a Perfect record with combo 1
\* and award 165: Perfect count 1, combo 1 and score +165 when nothing else
\* is recorded in the frame.
C7_PressRecord ==
    [][pc = "input" =>
        \A l \in Lanes :
            LET Candidates == {i \in 1 .. Len(notes) :
                                  /\ notes[i].lane = l
                                  /\ ~notes[i].hit
                                  /\ notes[i].kind # "HOLD"}
            IN  Presses(l) >= 1 /\ Candidates # {} =>
                  LET n == notes[SetMin(Candidates)]
                      d == CentreDistance(n)
                      Mine == EntriesOf(NewEntries, n.id)
                  IN  d <= 40 =>
                        /\ notes'[SetMin(Candidates)].hit
                        /\ Cardinality(Mine) = 1
                        /\ \A k \in Mine :
                             /\ NewEntries[k].via = "press"
                             /\ NewEntries[k].accuracy = Classify(d)
                             /\ NewEntries[k].base =
                                  (IF n.kind = "NORMAL" THEN 100 ELSE 500)
                        /\ (Presses(l) = 1 =>
                              Cardinality({k \in 1 .. Len(NewEntries) :
                                             NewEntries[k].via = "press"}) = 1)
                        /\ (/\ score_manager = NewScoreManager
                            /\ n.kind = "NORMAL" /\ l = 2 /\ d = 10
                            /\ pressed'[1] = l
                            => /\ NewEntries[1].id = n.id
                               /\ NewEntries[1].accuracy = "PERFECT"
                               /\ NewEntries[1].combo = 1
                               /\ NewEntries[1].award = 165
                               /\ (Len(NewEntries) = 1 =>
                                     /\ score_manager'.hits["PERFECT"] = 1
                                     /\ score_manager'.combo = 1
                                     /\ score_manager'.score =
                                          score_manager.score + 165))
    ]_vars

\* C7 witness: with a fresh ledger, the Normal note of lane 2 has just been
\* pressed at distance 10
C7_Witness ==
    /\ pc = "spawn"
    /\ pressed = <<2>>
    /\ Len(notes) = 1
    /\ notes[1].kind = "NORMAL" /\ notes[1].lane = 2 /\ notes[1].hit
    /\ CentreDistance(notes[1]) = 10
    /\ Len(log) = 1
    /\ log[1].via = "press" /\ log[1].accuracy = "PERFECT" /\ log[1].base = 100
    /\ score_manager.hits["PERFECT"] = 1
    /\ score_manager.combo = 1
    /\ score_manager.score = 165

----------------------------------------------------------------------------
\* C8: recording a Miss, from any ledger state and with any base score, sets
\* combo to 0, adds exactly 1 to the Miss counter and leaves the score, the
\* max combo and the Perfect and Good counters unchanged.
C8_MissRecord ==
    [][Len(NewEntries) = 1 /\ NewEntries[1].accuracy = "MISS" =>
        /\ score_manager'.combo = 0
        /\ score_manager'.hits["MISS"] = score_manager.hits["MISS"] + 1
        /\ score_manager'.score = score_manager.score
        /\ score_manager'.max_combo = score_manager.max_combo
        /\ score_manager'.hits["PERFECT"] = score_manager.hits["PERFECT"]
        /\ score_manager'.hits["GOOD"] = score_manager.hits["GOOD"]
    ]_vars

\* C8 witness: a Miss with base score 500 has been recorded on a ledger
\* whose combo was 20
C8_Witness ==
    /\ Len(log) = 21
    /\ log[20].combo = 20
    /\ log[21].accuracy = "MISS" /\ log[21].base = 500 /\ log[21].via = "record"
    /\ score_manager.combo = 0
    /\ score_manager.max_combo = 20
    /\ score_manager.hits["MISS"] = 1

----------------------------------------------------------------------------
\* floor(b * m * (1 + min(combo * 0.1, 2.0))), m = 1.5 for Perfect and 1.0
\* for Good, in exact integer arithmetic
ExactAward(b, accuracy, combo) ==
    (b * (IF accuracy = "PERFECT" THEN 15 ELSE 10)
       * (10 + (IF combo <= 20 THEN combo ELSE 20))) \div 100

\* C9: every Perfect or Good record with base score b first increments the
\* combo and then adds exactly floor(b * m * (1 + min(combo * 0.1, 2.0))) to
\* the score, for every base score and combo; the 20th and every later
\* consecutive Perfect with b = 100 awards 450, and no award exceeds
\* 3 * b * m.
C9_ExactFloorAward ==
    \A k \in 1 .. Len(log) :
        log[k].accuracy # "MISS" =>
            /\ log[k].combo = (IF k = 1 THEN 0 ELSE log[k - 1].combo) + 1
            /\ log[k].award = ExactAward(log[k].base, log[k].accuracy, log[k].combo)
            /\ 10 * log[k].award <=
                 3 * log[k].base * (IF log[k].accuracy = "PERFECT" THEN 15 ELSE 10)
            /\ (log[k].combo >= 20 /\ log[k].accuracy = "PERFECT" /\ log[k].base = 100
                  => log[k].award = 450)

----------------------------------------------------------------------------
\* the combo after a sequence of records
RECURSIVE ComboAfter(_, _)
ComboAfter(c, entries) ==
    IF entries = <<>> THEN c
    ELSE ComboAfter(IF Head(entries).accuracy = "MISS" THEN 0 ELSE c + 1,
                    Tail(entries))

\* C10: over the frames of a game the score never decreases, the max combo
\* never decreases, and the combo changes only by +1 on a Perfect/Good
\* record and to 0 on a Miss record, so that it always equals the number of
\* consecutive non-Miss records since the last Miss.
C10_LedgerMonotone ==
    [][/\ score_manager'.score >= score_manager.score
       /\ score_manager'.max_combo >= score_manager.max_combo
       /\ score_manager'.combo = ComboAfter(score_manager.combo, NewEntries)
       /\ score_manager'.combo = ComboAfter(0, log')
       /\ (NewEntries = <<>> => score_manager' = score_manager)
    ]_vars

\* C10 witness: a scored record followed by a Miss: the combo is back to 0,
\* the max combo and the score are kept
C10_Witness ==
    /\ pc = "draw"
    /\ Len(log) = 2
    /\ log[1].accuracy \in {"PERFECT", "GOOD"}
    /\ log[2].accuracy = "MISS"
    /\ score_manager.combo = 0
    /\ score_manager.max_combo = 1
    /\ score_manager.score = log[1].award
    /\ score_manager.score > 0

----------------------------------------------------------------------------
\* C11: classify(distance) is a step function of the distance alone, the
\* same for every note kind: distance <= 15 gives Perfect, 15 < distance <=
\* 30 gives Good, distance > 30 gives Miss; the call changes no note and no
\* ledger state.
C11_ClassifyStep ==
    [][call'.name = "calculate_accuracy" =>
        LET d == call'.args[2]
        IN  /\ d <= 15 => call'.result = "PERFECT"
            /\ (15 < d /\ d <= 30) => call'.result = "GOOD"
            /\ d > 30 => call'.result = "MISS"
            /\ notes' = notes
            /\ score_manager' = score_manager
            /\ log' = log
    ]_vars

\* C11 witness: a Hold note classifies distance 30, the upper boundary of
\* Good, as Good
C11_Witness ==
    /\ call.name = "calculate_accuracy"
    /\ call.args = <<"HOLD", 30>>
    /\ call.result = "GOOD"

----------------------------------------------------------------------------
\* C12: the advance step of a frame increases the position of every note of
\* the live set by exactly its speed, once, also when another note is
\* removed in the same pass; no other step moves a note; a new note starts at
\* -20; so every live note is at -20 plus a whole number of steps of 4, its
\* speed is the one it was constructed with, and its position never
\* decreases.
C12_AdvanceBySpeed ==
    [][/\ \A j \in 1 .. Len(notes') :
            LET Before == {i \in 1 .. Len(notes) : notes[i].id = notes'[j].id}
            IN  /\ Cardinality(Before) <= 1
                /\ Before = {} => notes'[j].y = -20 /\ notes'[j].speed = 4
                /\ \A i \in Before :
                     /\ notes'[j].speed = notes[i].speed
                     /\ notes'[j].y >= notes[i].y
                     /\ notes'[j].y = notes[i].y +
                            (IF pc = "update" THEN notes[i].speed ELSE 0)
       /\ \A i \in 1 .. Len(notes) :
            /\ notes[i].speed = 4
            /\ notes[i].y >= -20
            /\ (notes[i].y + 20) % notes[i].speed = 0
       /\ (pc = "update" =>
            \A i \in 1 .. Len(notes) :
                notes[i].y + notes[i].speed <= 600 =>
                    \E j \in 1 .. Len(notes') : notes'[j].id = notes[i].id)
    ]_vars

\* C12 witness: the first note has just been removed by the advance step
\* that moved the second note, spawned one frame later, to 600
C12_Witness ==
    /\ pc = "draw"
    /\ spawned = 2
    /\ Len(notes) = 1
    /\ notes[1].id = 1
    /\ notes[1].y = 600

----------------------------------------------------------------------------
\* C13: the spawn step adds a note if and only if the time since the last
\* spawn is strictly above 800 ms (in a run whose two notes are not yet both
\* constructed); it then appends exactly one unhit note, with lane in
\* {0,1,2,3} and position -20, to the end of the live list and sets the
\* last-spawn time to the current time; otherwise the live list and the
\* spawn timer are unchanged.  No other step adds a note, so no frame spawns
\* more than one, and the lane of every live note stays in {0,1,2,3}.
C13_SpawnAtInterval ==
    [][/\ (pc = "spawn" /\ since_last_note > 800 /\ spawned < 2 =>
            /\ Len(notes') = Len(notes) + 1
            /\ SubSeq(notes', 1, Len(notes)) = notes
            /\ ~notes'[Len(notes')].hit
            /\ notes'[Len(notes')].lane \in {0, 1, 2, 3}
            /\ notes'[Len(notes')].y = -20
            /\ since_last_note' = 0)
       /\ (pc = "spawn" /\ since_last_note <= 800 =>
            /\ notes' = notes
            /\ since_last_note' = since_last_note)
       /\ (pc # "spawn" => Len(notes') <= Len(notes))
       /\ \A i \in 1 .. Len(notes) :
            /\ notes[i].lane \in {0, 1, 2, 3}
            /\ \A j \in 1 .. Len(notes') :
                 notes'[j].id = notes[i].id => notes'[j].lane = notes[i].lane
    ]_vars

\* C13 witness: the second note has just been appended, in lane 3, behind a
\* first note of lane 0 that has advanced twice: the frame between the two
\* spawns came exactly 800 ms after the first and spawned nothing
C13_Witness ==
    /\ pc = "update"
    /\ Len(notes) = 2
    /\ notes[1].lane = 0 /\ notes[1].y = -12 /\ notes[1].id = 0
    /\ notes[2].lane = 3 /\ notes[2].y = -20 /\ notes[2].id = 1
    /\ ~notes[2].hit
    /\ since_last_note = 0

----------------------------------------------------------------------------
\* C14: accuracy_percentage() returns 0 when the ledger has no records, and
\* otherwise (Perfect count + Good count) / (Perfect + Good + Miss counts)
\* x 100, Misses included in the denominator: 3 Perfect, 1 Good and 1 Miss
\* give 80.  The call changes no ledger field.  (The value returned is the
\* fraction result[1] / result[2].)
C14_AccuracyPercentage ==
    [][call'.name = "get_accuracy_percentage" =>
        LET perfect == score_manager.hits["PERFECT"]
            good == score_manager.hits["GOOD"]
            miss == score_manager.hits["MISS"]
            value == call'.result
        IN  /\ value[2] > 0
            /\ perfect + good + miss = 0 => value[1] = 0
            /\ perfect + good + miss > 0 =>
                  value[1] * (perfect + good + miss) =
                      (perfect + good) * 100 * value[2]
            /\ (perfect = 3 /\ good = 1 /\ miss = 1) => value[1] = 80 * value[2]
            /\ score_manager' = score_manager
            /\ log' = log
    ]_vars

\* C14 witness: the percentage of a ledger with 3 Perfect, 1 Good and 1 Miss
\* has been read, and is 400 / 5
C14_Witness ==
    /\ call.name = "get_accuracy_percentage"
    /\ score_manager.hits["PERFECT"] = 3
    /\ score_manager.hits["GOOD"] = 1
    /\ score_manager.hits["MISS"] = 1
    /\ Len(log) = 5
    /\ call.result = <<400, 5>>

----------------------------------------------------------------------------
----------------------------------------------------------------------------
\* the color that goes with an accuracy class
ClassColor(accuracy) ==
    CASE accuracy = "PERFECT" -> "GREEN"
      [] accuracy = "GOOD" -> "YELLOW"
      [] accuracy = "MISS" -> "RED"

\* C16: a step that finalizes a hit or a miss (press hit, first Hold contact,
\* expiry Miss) sets the feedback label and color to the accuracy class of
\* its last record and the feedback timer to 60; the timer is always within
\* 0..60, each drawn frame decreases it by exactly 1 while it is positive, and
\* nothing else changes the feedback: it is shown in 60 drawn frames unless a
\* newer hit or miss replaces it.
C16_FeedbackWindow ==
    [][/\ feedback_timer \in 0 .. 60
       /\ feedback_timer' \in 0 .. 60
       /\ IF NewEntries # <<>>
          THEN /\ pc \in {"input", "update"}
               /\ feedback_text' = NewEntries[Len(NewEntries)].accuracy
               /\ feedback_color' =
                    ClassColor(NewEntries[Len(NewEntries)].accuracy)
               /\ feedback_timer' = 60
          ELSE /\ feedback_text' = feedback_text
               /\ feedback_color' = feedback_color
               /\ feedback_timer' =
                    IF pc = "draw" /\ feedback_timer > 0
                    THEN feedback_timer - 1 ELSE feedback_timer
    ]_vars

\* C16 witness: the Good of a press has been shown in 60 drawn frames and its
\* timer has run out; the note, hit, has left the screen without a record
C16_Witness ==
    /\ Len(log) = 1
    /\ log[1].via = "press" /\ log[1].accuracy = "GOOD"
    /\ feedback_text = "GOOD"
    /\ feedback_color = "YELLOW"
    /\ feedback_timer = 0
    /\ spawned = 1
    /\ notes = <<>>

----------------------------------------------------------------------------
\* C17: every finalized hit or miss (press hit, first Hold contact, expiry
\* Miss) triggers exactly one play-hit-sound event for its accuracy class in
\* the step that makes the ledger record, with the special flag set exactly
\* when the note is a Special note: the audio events match the ledger
\* records one to one, in order.
C17_SoundPerRecord ==
    /\ Len(sounds) = Len(log)
    /\ \A k \in 1 .. Len(log) :
         k <= Len(sounds) =>
            /\ sounds[k].accuracy = log[k].accuracy
            /\ sounds[k].is_special = (log[k].kind = "SPECIAL")

----------------------------------------------------------------------------
\* C18: create_random(lane) maps the draw r in [0,1) to a kind by the
\* partition at 0.70 and 0.90: r < 0.70 gives Normal, 0.70 <= r < 0.90 gives
\* Hold, r >= 0.90 gives Special; the note returned is in the requested
\* lane, unhit, at the initial offset -20, and the call changes nothing of
\* the game.  (r is in hundredths.)
C18_RandomKindPartition ==
    [][call'.name = "create_random_note" =>
        LET lane == call'.args[1]
            r == call'.args[2]
            n == call'.result
        IN  /\ r < 70 => n.kind = "NORMAL"
            /\ (70 <= r /\ r < 90) => n.kind = "HOLD"
            /\ r >= 90 => n.kind = "SPECIAL"
            /\ n.lane = lane
            /\ ~n.hit
            /\ n.y = -20
            /\ notes' = notes
            /\ score_manager' = score_manager
            /\ log' = log
            /\ since_last_note' = since_last_note
    ]_vars

\* C18 witness: the draw 0.70 for lane 3 has returned a Hold note
C18_Witness ==
    /\ call.name = "create_random_note"
    /\ call.args = <<3, 70>>
    /\ call.result.kind = "HOLD"
    /\ call.result.lane = 3
    /\ call.result.y = -20

----------------------------------------------------------------------------
\* the notes that input resolution matches in the input step being taken:
\* for each fresh press on a lane the earliest unhit Normal or Special note
\* of the lane within 40, and for a held lane the first unhit Hold note of
\* the lane within 30
MatchedByPress ==
    {i \in 1 .. Len(notes) :
        /\ ~notes[i].hit
        /\ notes[i].kind # "HOLD"
        /\ CentreDistance(notes[i]) <= 40
        /\ Cardinality({j \in 1 .. (i - 1) :
                           /\ notes[j].lane = notes[i].lane
                           /\ ~notes[j].hit
                           /\ notes[j].kind # "HOLD"
                           /\ CentreDistance(notes[j]) <= 40})
              < Presses(notes[i].lane)}

MatchedByHold ==
    {i \in 1 .. Len(notes) :
        /\ ~notes[i].hit
        /\ notes[i].kind = "HOLD"
        /\ key_states'[notes[i].lane]
        /\ CentreDistance(notes[i]) <= 30
        /\ \A j \in 1 .. (i - 1) :
               ~(/\ notes[j].lane = notes[i].lane
                 /\ ~notes[j].hit
                 /\ notes[j].kind = "HOLD"
                 /\ CentreDistance(notes[j]) <= 30)}

\* C19: input resolution leaves every unmatched note untouched: a note in a
\* lane with no press or hold input, a note outside the attempt radius and a
\* note behind the matched note keep position, hit flag and held state and
\* get no record; when no note is matched the ledger is unchanged.
C19_UnmatchedUntouched ==
    [][pc = "input" =>
        /\ Len(notes') = Len(notes)
        /\ \A i \in (1 .. Len(notes)) \ (MatchedByPress \cup MatchedByHold) :
             /\ notes'[i] = notes[i]
             /\ EntriesOf(NewEntries, notes[i].id) = {}
        /\ (MatchedByPress \cup MatchedByHold = {} =>
               /\ score_manager' = score_manager
               /\ log' = log)
    ]_vars

----------------------------------------------------------------------------
\* a note without its glow counter, hold timer and being_held flag
Core(n) ==
    [id |-> n.id, lane |-> n.lane, y |-> n.y, kind |-> n.kind,
     speed |-> n.speed, hit |-> n.hit, hit_registered |-> n.hit_registered]

\* what the game logic shows of an engine state: the live notes without the
\* three fields, the ledger, the records, the feedback and the audio events
Shown(st) ==
    [notes |-> [i \in 1 .. Len(st.notes) |-> Core(st.notes[i])],
     sm |-> st.sm, log |-> st.log, text |-> st.text, color |-> st.color,
     timer |-> st.timer, sounds |-> st.sounds]

\* the values given to <<glow counter, hold timer, being_held>> in the
\* second run
OtherFields ==
    {<<0, 0, FALSE>>, <<7, 0, FALSE>>, <<0, 7, FALSE>>, <<0, 0, TRUE>>,
     <<7, 7, TRUE>>}

\* the engine state of the second run: the same as the current one but for
\* the three fields of every live note
Other(f) ==
    [Engine EXCEPT !.notes =
        [i \in 1 .. Len(notes) |->
            [notes[i] EXCEPT !.glow_timer = f[1], !.hold_timer = f[2],
                             !.being_held = f[3]]]]

EngineAfter ==
    [notes |-> notes', sm |-> score_manager', text |-> feedback_text',
     color |-> feedback_color', timer |-> feedback_timer', log |-> log',
     sounds |-> sounds', raised |-> FALSE]

\* C20: the glow counter of a Special note and the hold timer and being_held
\* flag of a Hold note are inert: from two states that differ only in the
\* values of these fields, the same input step and the same advance step
\* lead to the same ledger, hit flags, records, removals and feedback (the
\* spawn and draw steps read no note).  Two runs with the same inputs and
\* spawns therefore agree on them at every frame.
C20_CosmeticFieldsInert ==
    [][\A f \in OtherFields :
          /\ pc = "input" =>
                Shown(handle_input(Other(f), pressed',
                                   held_from(key_states', 0), audio_manager))
                    = Shown(EngineAfter)
          /\ pc = "update" =>
                Shown(update_notes(Other(f))) = Shown(EngineAfter)
          /\ pc \in {"spawn", "draw"} =>
                /\ score_manager' = score_manager
                /\ log' = log
                /\ \A i \in 1 .. Len(notes) : notes'[i] = notes[i]
    ]_vars

\* C20 witness: a Hold note has been held for 3 frames in contact and scored
\* once, its hold timer at 3 and being_held set
C20_Witness ==
    /\ Len(notes) = 1
    /\ notes[1].kind = "HOLD"
    /\ notes[1].hold_timer = 3
    /\ notes[1].being_held
    /\ notes[1].hit_registered
    /\ Len(log) = 1
    /\ log[1].via = "hold"

----------------------------------------------------------------------------
\* C21: as long as frames keep executing, every live note is eventually
\* removed, whatever the input: a note spawned at -20 with speed 4 is removed
\* in the advance step in which its position first exceeds 600, its 156th,
\* whether or not it was hit; it is still live at position 600, and no other
\* step removes a note, so a hit note stays in the live set until then.
C21_NotesLeave ==
    /\ [][/\ \A i \in 1 .. Len(notes) :
                LET advances == (notes[i].y + 20) \div 4
                    stays == \E j \in 1 .. Len(notes') :
                                 notes'[j].id = notes[i].id
                IN  /\ notes[i].y <= 600
                    /\ advances <= 155
                    /\ stays <=> ~(pc = "update" /\ advances + 1 = 156)
                    /\ (pc = "update" /\ notes[i].y = 600) => ~stays
          ]_vars
    /\ \A id \in 0 .. (MaxNotes - 1) :
          (id \in LiveIds) ~> (id \notin LiveIds)

\* C21 witness: a note that was hit by a press has stayed in the live set
\* and has now been removed by the advance step, with no second record
C21_Witness ==
    /\ pc = "draw"
    /\ spawned = 1
    /\ notes = <<>>
    /\ Len(log) = 1
    /\ log[1].via = "press"
    /\ log[1].accuracy = "PERFECT"

----------------------------------------------------------------------------
\* C22: a fresh press that matches a Normal or Special note at distance d
\* with 30 < d <= 40 records a Miss (Miss counter +1, combo reset to 0, score
\* unchanged) and sets the hit flag of the note; the note is then hit by no
\* later press and gets no further record, also when it leaves the screen.
C22_LatePressIsMiss ==
    [][/\ (pc = "input" =>
            \A i \in MatchedByPress :
                LET d == CentreDistance(notes[i])
                    Mine == EntriesOf(NewEntries, notes[i].id)
                IN  (30 < d /\ d <= 40) =>
                      /\ notes'[i].hit
                      /\ Cardinality(Mine) = 1
                      /\ \A k \in Mine :
                           /\ NewEntries[k].via = "press"
                           /\ NewEntries[k].accuracy = "MISS"
                           /\ NewEntries[k].combo = 0
                           /\ NewEntries[k].award = 0
                      /\ (Len(NewEntries) = 1 =>
                            /\ score_manager'.hits["MISS"] =
                                 score_manager.hits["MISS"] + 1
                            /\ score_manager'.combo = 0
                            /\ score_manager'.score = score_manager.score
                            /\ score_manager'.hits["PERFECT"] =
                                 score_manager.hits["PERFECT"]
                            /\ score_manager'.hits["GOOD"] =
                                 score_manager.hits["GOOD"]))
       /\ \A i \in 1 .. Len(notes) :
            (notes[i].kind # "HOLD" /\ notes[i].hit) =>
                /\ EntriesOf(NewEntries, notes[i].id) = {}
                /\ \A j \in 1 .. Len(notes') :
                     notes'[j].id = notes[i].id => notes'[j].hit
       /\ \A k \in 1 .. Len(log') :
            (log'[k].via = "press" /\ log'[k].accuracy = "MISS") =>
                Cardinality(EntriesOf(log', log'[k].id)) = 1
    ]_vars

\* C22 witness: the one note of the run, a Special note, was pressed beyond
\* distance 30, recorded as a Miss, and has left the screen without a second
\* record
C22_Witness ==
    /\ pc = "draw"
    /\ spawned = 1
    /\ notes = <<>>
    /\ Len(log) = 1
    /\ log[1].via = "press"
    /\ log[1].accuracy = "MISS"
    /\ log[1].kind = "SPECIAL"
    /\ score_manager.hits["MISS"] = 1
    /\ score_manager.score = 0
    /\ score_manager.combo = 0

----------------------------------------------------------------------------
\* C23: the record made at the first hold contact of a Hold note is always
\* Perfect or Good and never Miss, contact requiring distance <= 30; so a
\* hold contact always increments the combo and never resets it.
C23_HoldContactScores ==
    \A k \in 1 .. Len(log) :
        log[k].via = "hold" =>
            /\ log[k].kind = "HOLD"
            /\ log[k].accuracy \in {"PERFECT", "GOOD"}
            /\ log[k].accuracy # "MISS"
            /\ log[k].combo = (IF k = 1 THEN 0 ELSE log[k - 1].combo) + 1
            /\ log[k].combo >= 1
            /\ log[k].award > 0

\* C23 witness: after a Perfect press on the first note, the first contact
\* of the Hold note behind it, at distance 28, is recorded as Good and takes
\* the combo from 1 to 2
C23_Witness ==
    /\ Len(notes) = 2
    /\ notes[2].kind = "HOLD"
    /\ CentreDistance(notes[2]) = 28
    /\ notes[2].hold_timer = 1
    /\ Len(log) = 2
    /\ log[1].via = "press" /\ log[1].accuracy = "PERFECT"
    /\ log[2].via = "hold" /\ log[2].accuracy = "GOOD"
    /\ log[2].id = notes[2].id
    /\ log[2].combo = 2
    /\ score_manager.combo = 2

----------------------------------------------------------------------------
\* C24: in every reachable ledger state 0 <= combo <= max combo <= Perfect
\* count + Good count, the three accuracy counters are non-negative and sum
\* to the number of record operations performed so far, and the score is 0
\* whenever Perfect count + Good count is 0.
C24_LedgerInvariant ==
    LET perfect == score_manager.hits["PERFECT"]
        good == score_manager.hits["GOOD"]
        miss == score_manager.hits["MISS"]
    IN  /\ 0 <= score_manager.combo
        /\ score_manager.combo <= score_manager.max_combo
        /\ score_manager.max_combo <= perfect + good
        /\ perfect >= 0 /\ good >= 0 /\ miss >= 0
        /\ perfect + good + miss = Len(log)
        /\ (perfect + good = 0 => score_manager.score = 0)
        /\ score_manager.score >= 0

\* C24 witness: three Perfects, a Miss and a Good: combo 1 below max combo 3
\* below the 4 scored records, 5 records in all
C24_Witness ==
    /\ Len(log) = 5
    /\ log[4].accuracy = "MISS"
    /\ log[5].accuracy = "GOOD"
    /\ score_manager.combo = 1
    /\ score_manager.max_combo = 3
    /\ score_manager.hits["PERFECT"] = 3
    /\ score_manager.hits["GOOD"] = 1
    /\ score_manager.hits["MISS"] = 1

====
